---- MODULE Spec2Model ----
\* Model of src/api.py: RedditRequestManager (the sliding-window request
\* executor _request_get, search_posts and get_comments).
EXTENDS Integers, Sequences, FiniteSets, TLC

VARIABLES
    \* ---- RedditRequestManager fields (src/api.py:69-85) ----
    arg_window_time_sec,        \* constructor argument window_time_sec
    arg_max_requests_in_window, \* constructor argument max_requests_in_window
    window_time,                \* self._window_time
    max_requests_in_window,     \* self._max_requests_in_window
    queue_maxlen,               \* maxlen of self._request_unixtime_queue
    request_unixtime_queue,     \* self._request_unixtime_queue, front = index 1
    just_started,               \* self._just_started
    \* ---- environment ----
    clock,                      \* int(time.monotonic())
    \* ---- _request_get frame (src/api.py:104-153) ----
    pc,                         \* position of the running call
    oldest_request_unixtime,    \* local of _request_get
    now,                        \* local of _request_get
    sleeps,                     \* iterations of the admission loop in this call
    resp,                       \* response of the GET of this call
    \* ---- observation of the run ----
    sent,                       \* clock values at which a GET was sent
    succeeded,                  \* some earlier call has returned a response
    \* ---- the platform's comment tree, as served (fixed during a run) ----
    tree_parent,                \* tree_parent[c]: parent comment of c, 0 = the post
    tree_via,                   \* how the platform hands out c (see Listing)
    tree_stub,                  \* nodes carrying a "more" placeholder with count 0
    \* ---- get_comments frame (src/api.py:232-301) ----
    gc_pc,                      \* position of get_comments
    comments_data,              \* comments_data, by id
    more_children,              \* more_children after dfs_comments
    stack,                      \* activations of dfs_morechildren, innermost last
    \* ---- search_posts frame (src/api.py:178-229) ----
    sp_pc,                      \* position of search_posts
    query_term,                 \* argument query_term
    num_results,                \* argument num_results
    query_after,                \* after_fullname of `query`, NONE at first
    results,                    \* results: the pages received
    seen_ids,                   \* seen_ids
    posts_data                  \* posts_data, the returned list

ctorVars == <<arg_window_time_sec, arg_max_requests_in_window, window_time,
              max_requests_in_window, queue_maxlen>>

frameVars == <<oldest_request_unixtime, now, sleeps, resp>>

rateVars == <<ctorVars, request_unixtime_queue, just_started, clock, pc,
              frameVars, sent, succeeded>>

treeVars == <<tree_parent, tree_via, tree_stub>>

commentVars == <<treeVars, gc_pc, comments_data, more_children, stack>>

searchVars == <<sp_pc, query_term, num_results, query_after, results,
                seen_ids, posts_data>>

clientVars == <<commentVars, searchVars>>

vars == <<rateVars, clientVars>>

----------------------------------------------------------------------------
\* Bounds of the model
MaxTime   == 10     \* no tick of the clock past this (a sleep may end later)
MaxCalls  == 4      \* number of _request_get calls explored
MaxCap    == 2      \* largest max_requests_in_window explored by Spec
MaxWindow == 3      \* largest window_time_sec explored by Spec
MaxUsed   == 3      \* largest X-Ratelimit-Used the server reports
CtorSpan  == 5      \* constructor arguments explored around each clamp

\* Program constants
WINDOW_TIME_CAP  == 600     \* src/api.py:71,75
MAX_REQUESTS_CAP == 1000    \* src/api.py:77,81
SLEEP_SEC        == 10      \* src/api.py:117
HTTP_OK          == 200     \* src/api.py:130
EMPTY_OLDEST     == -1      \* src/api.py:106

WindowArgs == (MaxWindow - 1)..MaxWindow  \* window_time_sec values explored by Spec
ResetArgs  == {1, MaxWindow + 2}    \* X-Ratelimit-Reset values the server reports
ErrorStatuses == {500}              \* a status other than 200

Min(a, b) == IF a < b THEN a ELSE b

Range(q) == {q[j] : j \in 1..Len(q)}

NoResp == [status |-> 0, has_ratelimit |-> FALSE, used |-> 0, reset |-> 0]

----------------------------------------------------------------------------
\* collections.deque(maxlen=...) as used by the manager

deque_append_nomax(q, x, maxlen) == q \o <<x>>

\* deque.append on a bounded deque: a full deque discards its leftmost item
deque_append(q, x, maxlen) ==
    IF maxlen = 0 THEN <<>>
    ELSE IF Len(q) >= maxlen THEN Tail(q) \o <<x>>
    ELSE q \o <<x>>

\* deque.appendleft on a bounded deque: a full deque discards its rightmost item
deque_appendleft(q, x, maxlen) ==
    IF maxlen = 0 THEN <<>>
    ELSE IF Len(q) >= maxlen THEN <<x>> \o SubSeq(q, 1, Len(q) - 1)
    ELSE <<x>> \o q

----------------------------------------------------------------------------
\* RedditRequestManager.__init__

clamp_window_time(w) == IF w > WINDOW_TIME_CAP THEN WINDOW_TIME_CAP ELSE w

clamp_max_requests(m) == IF m > MAX_REQUESTS_CAP THEN MAX_REQUESTS_CAP ELSE m

deque_maxlen_unclamped(m) == m

\* the value handed to deque(maxlen=...): the local after clamping
deque_maxlen(m) == clamp_max_requests(m)

Construct(w, m) ==
    /\ arg_window_time_sec' = w
    /\ arg_max_requests_in_window' = m
    /\ just_started' = TRUE
    /\ window_time' = clamp_window_time(w)
    /\ max_requests_in_window' = clamp_max_requests(m)
    /\ request_unixtime_queue' = <<>>
    /\ queue_maxlen' = deque_maxlen(m)

----------------------------------------------------------------------------
\* RedditRequestManager._request_get

admission_blocked_gt(q, oldest, nw) ==
    /\ Len(q) > max_requests_in_window
    /\ nw - oldest < window_time

\* condition of the admission loop
admission_blocked(q, oldest, nw) ==
    /\ Len(q) = max_requests_in_window
    /\ nw - oldest < window_time

\* the pruning loop: `oldest` is the value read at entry and is not re-read
RECURSIVE prune(_, _, _)
prune(q, oldest, nw) ==
    IF Len(q) > 0 /\ nw - oldest > window_time
    THEN prune(Tail(q), oldest, nw)
    ELSE q

backfill_count_all(used) == IF used > 0 THEN used ELSE 0

\* range(requests_used - 1)
backfill_count(used) == IF used - 1 > 0 THEN used - 1 ELSE 0

clamp_reset(reset) == IF window_time < reset THEN window_time ELSE reset

RECURSIVE backfill(_, _, _)
backfill(q, n, stamp) ==
    IF n = 0 THEN q
    ELSE backfill(deque_appendleft(q, stamp, queue_maxlen), n - 1, stamp)

----------------------------------------------------------------------------
\* time.monotonic() advances. The clock is read at lines 108, 118 and 126
\* only, so its advance is observed between calls and inside the admission
\* phase of a call.
Tick ==
    /\ pc \in {"idle", "admit"}
    /\ clock < MaxTime
    /\ clock' = clock + 1
    /\ UNCHANGED <<ctorVars, request_unixtime_queue, just_started, pc,
                   frameVars, sent, succeeded,
                   clientVars>>

\* lines 105-108: entry of _request_get
Enter ==
    /\ pc = "idle"
    /\ Len(sent) < MaxCalls
    /\ oldest_request_unixtime' =
         (IF Len(request_unixtime_queue) > 0
          THEN request_unixtime_queue[1] ELSE EMPTY_OLDEST)
    /\ now' = clock
    /\ pc' = "admit"
    /\ UNCHANGED <<ctorVars, request_unixtime_queue, just_started, clock,
                   sleeps, resp, sent, succeeded,
                   clientVars>>

\* the loop without the reading of line 118
SleepNoReread ==
    /\ pc = "admit"
    /\ admission_blocked(request_unixtime_queue, oldest_request_unixtime, now)
    /\ clock' = clock + SLEEP_SEC
    /\ sleeps' = sleeps + 1
    /\ UNCHANGED <<ctorVars, request_unixtime_queue, just_started, pc,
                   oldest_request_unixtime, now, resp, sent, succeeded,
                   clientVars>>

\* lines 109-118: one iteration of the admission loop; the sleep may end
\* after MaxTime
Sleep ==
    /\ pc = "admit"
    /\ admission_blocked(request_unixtime_queue, oldest_request_unixtime, now)
    /\ clock' = clock + SLEEP_SEC
    /\ now' = clock'
    /\ sleeps' = sleeps + 1
    /\ UNCHANGED <<ctorVars, request_unixtime_queue, just_started, pc,
                   oldest_request_unixtime, resp, sent, succeeded,
                   clientVars>>

\* lines 120-129: prune, record the request, send the GET
Send ==
    /\ pc = "admit"
    /\ ~admission_blocked(request_unixtime_queue, oldest_request_unixtime, now)
    /\ now' = clock
    /\ request_unixtime_queue' =
         deque_append(prune(request_unixtime_queue, oldest_request_unixtime, now),
                      clock, queue_maxlen)
    /\ sent' = Append(sent, clock)
    /\ pc' = "inflight"
    /\ UNCHANGED <<ctorVars, just_started, clock, oldest_request_unixtime,
                   sleeps, resp, succeeded,
                   clientVars>>

\* the status check moved below the header handling
RespondErrorLate ==
    /\ pc = "inflight"
    /\ \E st \in ErrorStatuses, used \in 0..MaxUsed, reset \in ResetArgs :
         /\ resp' = [status |-> st, has_ratelimit |-> TRUE,
                     used |-> used, reset |-> reset]
         /\ IF just_started /\ used > 1
            THEN /\ request_unixtime_queue' =
                      backfill(request_unixtime_queue, backfill_count(used),
                               now - clamp_reset(reset))
                 /\ just_started' = FALSE
            ELSE UNCHANGED <<request_unixtime_queue, just_started>>
    /\ pc' = "raised"
    /\ UNCHANGED <<ctorVars, clock, oldest_request_unixtime, now, sleeps,
                   sent, succeeded,
                   clientVars>>

\* lines 130-133: the status is not 200, RequestException is raised
RespondError ==
    /\ pc = "inflight"
    /\ \E st \in ErrorStatuses :
         resp' = [status |-> st, has_ratelimit |-> FALSE, used |-> 0, reset |-> 0]
    /\ pc' = "raised"
    /\ UNCHANGED <<ctorVars, request_unixtime_queue, just_started, clock,
                   oldest_request_unixtime, now, sleeps, sent, succeeded,
                   clientVars>>

\* the header read without the membership test of line 134
RespondNoHeadersKeyError ==
    /\ pc = "inflight"
    /\ resp' = [status |-> HTTP_OK, has_ratelimit |-> FALSE, used |-> 0, reset |-> 0]
    /\ pc' = "raised"
    /\ UNCHANGED <<ctorVars, request_unixtime_queue, just_started, clock,
                   oldest_request_unixtime, now, sleeps, sent, succeeded,
                   clientVars>>

\* lines 134-135, 153: a 200 without X-Ratelimit-Used
RespondNoHeaders ==
    /\ pc = "inflight"
    /\ resp' = [status |-> HTTP_OK, has_ratelimit |-> FALSE, used |-> 0, reset |-> 0]
    /\ pc' = "returned"
    /\ UNCHANGED <<ctorVars, request_unixtime_queue, just_started, clock,
                   oldest_request_unixtime, now, sleeps, sent, succeeded,
                   clientVars>>

\* lines 136-153: a 200 with rate-limit headers
RespondHeaders ==
    /\ pc = "inflight"
    /\ \E used \in 0..MaxUsed, reset \in ResetArgs :
         /\ resp' = [status |-> HTTP_OK, has_ratelimit |-> TRUE,
                     used |-> used, reset |-> reset]
         /\ IF just_started /\ used > 1
            THEN /\ request_unixtime_queue' =
                      backfill(request_unixtime_queue, backfill_count(used),
                               now - clamp_reset(reset))
                 /\ just_started' = FALSE
            ELSE UNCHANGED <<request_unixtime_queue, just_started>>
    /\ pc' = "returned"
    /\ UNCHANGED <<ctorVars, clock, oldest_request_unixtime, now, sleeps,
                   sent, succeeded,
                   clientVars>>

\* the call is over (return at line 153 or the raise of line 131): its frame
\* is gone and the caller has the response or the exception
Exit ==
    /\ pc \in {"returned", "raised"}
    /\ succeeded' = (succeeded \/ pc = "returned")
    /\ oldest_request_unixtime' = EMPTY_OLDEST
    /\ now' = 0
    /\ sleeps' = 0
    /\ resp' = NoResp
    /\ pc' = "idle"
    /\ UNCHANGED <<ctorVars, request_unixtime_queue, just_started, clock, sent,
                   clientVars>>

NONE == 0       \* Python's None, as a cursor

\* no search_posts call is running
NoSearch ==
    /\ sp_pc = "none"
    /\ query_term = ""
    /\ num_results = 0
    /\ query_after = NONE
    /\ results = <<>>
    /\ seen_ids = {}
    /\ posts_data = <<>>

\* no search_posts or get_comments call is running
NoClient ==
    /\ tree_parent = <<>>
    /\ tree_via = <<>>
    /\ tree_stub = {}
    /\ gc_pc = "none"
    /\ comments_data = <<>>
    /\ more_children = <<>>
    /\ stack = <<>>
    /\ NoSearch

----------------------------------------------------------------------------
\* Spec: one manager, constructed, serving a sequence of _request_get calls

Init ==
    /\ \E w \in WindowArgs, m \in 1..MaxCap :
         /\ arg_window_time_sec = w
         /\ arg_max_requests_in_window = m
         /\ window_time = clamp_window_time(w)
         /\ max_requests_in_window = clamp_max_requests(m)
         /\ queue_maxlen = deque_maxlen(m)
    /\ just_started = TRUE
    /\ request_unixtime_queue = <<>>
    /\ clock = 0
    /\ pc = "idle"
    /\ oldest_request_unixtime = EMPTY_OLDEST
    /\ now = 0
    /\ sleeps = 0
    /\ resp = NoResp
    /\ sent = <<>>
    /\ succeeded = FALSE
    /\ NoClient

Next ==
    \/ Tick
    \/ Enter
    \/ Sleep
    \/ Send
    \/ RespondError
    \/ RespondNoHeaders
    \/ RespondHeaders
    \/ Exit

Spec == Init /\ [][Next]_vars

----------------------------------------------------------------------------
\* SpecLive: the calls of Spec, fewer of them, on instances whose window is
\* shorter or longer than one sleep

MaxLiveCalls == 3   \* number of _request_get calls explored by SpecLive

LiveWindowArgs == {MaxWindow, SLEEP_SEC + MaxWindow}

InitLive ==
    /\ \E w \in LiveWindowArgs, m \in 1..MaxCap :
         /\ arg_window_time_sec = w
         /\ arg_max_requests_in_window = m
         /\ window_time = clamp_window_time(w)
         /\ max_requests_in_window = clamp_max_requests(m)
         /\ queue_maxlen = deque_maxlen(m)
    /\ just_started = TRUE
    /\ request_unixtime_queue = <<>>
    /\ clock = 0
    /\ pc = "idle"
    /\ oldest_request_unixtime = EMPTY_OLDEST
    /\ now = 0
    /\ sleeps = 0
    /\ resp = NoResp
    /\ sent = <<>>
    /\ succeeded = FALSE
    /\ NoClient

NextLive ==
    \/ Tick
    \/ Len(sent) < MaxLiveCalls /\ Enter
    \/ Sleep
    \/ Send
    \/ RespondError
    \/ RespondNoHeaders
    \/ RespondHeaders
    \/ Exit

\* _request_get runs on one thread: time.sleep(10) returns and the loop
\* tests its condition again; when the test fails the call goes on to the GET.
SpecLive ==
    /\ InitLive
    /\ [][NextLive]_vars
    /\ WF_vars(Sleep)
    /\ WF_vars(Send)

----------------------------------------------------------------------------
\* SpecCtor: the constructor applied to arguments around both clamps

CtorWindowArgs == (WINDOW_TIME_CAP - CtorSpan)..(WINDOW_TIME_CAP + CtorSpan)
CtorMaxArgs    == (MAX_REQUESTS_CAP - CtorSpan)..(MAX_REQUESTS_CAP + CtorSpan)

InitCtor ==
    /\ arg_window_time_sec \in CtorWindowArgs
    /\ arg_max_requests_in_window \in CtorMaxArgs
    /\ window_time = 0
    /\ max_requests_in_window = 0
    /\ queue_maxlen = 0
    /\ just_started = FALSE
    /\ request_unixtime_queue = <<>>
    /\ clock = 0
    /\ pc = "new"
    /\ oldest_request_unixtime = EMPTY_OLDEST
    /\ now = 0
    /\ sleeps = 0
    /\ resp = NoResp
    /\ sent = <<>>
    /\ succeeded = FALSE
    /\ NoClient

\* RedditRequestManager(window_time_sec, max_requests_in_window)
New ==
    /\ pc = "new"
    /\ Construct(arg_window_time_sec, arg_max_requests_in_window)
    /\ pc' = "idle"
    /\ UNCHANGED <<clock, frameVars, sent, succeeded, clientVars>>

NextCtor == New

SpecCtor == InitCtor /\ [][NextCtor]_vars

----------------------------------------------------------------------------
\* _request_get as one step of a client (search_posts, get_comments): the
\* clock does not advance during the client's run, the window is not
\* saturated, and the response carries no rate-limit headers.

oldest_of(q) == IF Len(q) > 0 THEN q[1] ELSE EMPTY_OLDEST

RequestGet ==
    /\ pc = "idle"
    /\ ~admission_blocked(request_unixtime_queue,
                          oldest_of(request_unixtime_queue), clock)
    /\ request_unixtime_queue' =
         deque_append(prune(request_unixtime_queue,
                            oldest_of(request_unixtime_queue), clock),
                      clock, queue_maxlen)
    /\ sent' = Append(sent, clock)
    /\ UNCHANGED <<ctorVars, just_started, clock, pc, frameVars, succeeded>>

\* a manager built with the largest configuration, before any request
InitManager ==
    /\ arg_window_time_sec = WINDOW_TIME_CAP
    /\ arg_max_requests_in_window = MAX_REQUESTS_CAP
    /\ window_time = clamp_window_time(WINDOW_TIME_CAP)
    /\ max_requests_in_window = clamp_max_requests(MAX_REQUESTS_CAP)
    /\ queue_maxlen = deque_maxlen(MAX_REQUESTS_CAP)
    /\ just_started = TRUE
    /\ request_unixtime_queue = <<>>
    /\ clock = 0
    /\ pc = "idle"
    /\ oldest_request_unixtime = EMPTY_OLDEST
    /\ now = 0
    /\ sleeps = 0
    /\ resp = NoResp
    /\ sent = <<>>
    /\ succeeded = FALSE

----------------------------------------------------------------------------
\* The platform. Comments are 1..Len(tree_parent); tree_parent[c] < c.
\* tree_via[c] says how c is handed out:
\*   "inline"  together with its parent: nested in the parent's replies
\*             listing (/comments) or next to it in the flat list of things
\*             (/api/morechildren);
\*   "more"    as a child id of a "more" placeholder next to its siblings;
\*   "replies" as an id in the flat replies list of its parent's thing
\*             (only for a parent that /api/morechildren hands out).

BATCH_SIZE == 100       \* src/api.py:20

PLACEHOLDER_ID == 0     \* the id ("_") in the data of a count-0 placeholder

NumIds == Len(tree_parent)

IdSeq == [c \in 1..NumIds |-> c]

KidsVia(p, v) ==
    SelectSeq(IdSeq, LAMBDA c : tree_parent[c] = p /\ tree_via[c] = v)

RECURSIVE InInitial(_)
\* c is part of the first response (/comments/<post>)
InInitial(c) ==
    /\ tree_via[c] = "inline"
    /\ (tree_parent[c] = 0 \/ InInitial(tree_parent[c]))

CommentThing(c, replies) ==
    [kind |-> "t1", id |-> c, replies |-> replies, children |-> <<>>, count |-> 0]

MoreThing(children, count) ==
    [kind |-> "more", id |-> PLACEHOLDER_ID, replies |-> <<>>,
     children |-> children, count |-> count]

\* the "more" placeholders listed after the children of p
MorePlaceholders(p) ==
    (IF KidsVia(p, "more") # <<>>
     THEN <<MoreThing(KidsVia(p, "more"), Len(KidsVia(p, "more")))>>
     ELSE <<>>)
    \o (IF p \in tree_stub THEN <<MoreThing(<<>>, 0)>> ELSE <<>>)

RECURSIVE Listing(_)
\* the nested listing of the children of p in the first response;
\* an empty listing stands for replies == ""
Listing(p) ==
    LET inl == KidsVia(p, "inline")
    IN [j \in 1..Len(inl) |-> CommentThing(inl[j], Listing(inl[j]))]
       \o MorePlaceholders(p)

RECURSIVE FlattenRange(_, _, _)
\* ss[lo] \o ... \o ss[hi], evaluated by halves
FlattenRange(ss, lo, hi) ==
    IF lo > hi THEN <<>>
    ELSE IF lo = hi THEN ss[lo]
    ELSE LET mid == (lo + hi) \div 2
         IN FlattenRange(ss, lo, mid) \o FlattenRange(ss, mid + 1, hi)

Flatten(ss) == FlattenRange(ss, 1, Len(ss))

RECURSIVE FlatThings(_)
\* the things /api/morechildren returns for the id x
FlatThings(x) ==
    LET inl == KidsVia(x, "inline")
    IN <<CommentThing(x, KidsVia(x, "replies"))>>
       \o Flatten([j \in 1..Len(inl) |-> FlatThings(inl[j])])
       \o MorePlaceholders(x)

\* json.data.things of /api/morechildren?children=<comment_ids_batch>
ServerMoreChildren(comment_ids_batch) ==
    Flatten([j \in 1..Len(comment_ids_batch) |-> FlatThings(comment_ids_batch[j])])

----------------------------------------------------------------------------
\* RedditRequestManager.get_comments

RECURSIVE dfs_comments(_, _)
\* lines 251-264; acc carries comments_data and more_children
dfs_comments(children, acc) ==
    IF children = <<>> THEN acc
    ELSE LET comment == Head(children)
             here ==
               IF comment.kind # "more"
               THEN LET a == [acc EXCEPT !.comments_data = Append(@, comment.id)]
                    IN IF comment.replies # <<>>
                       THEN dfs_comments(comment.replies, a)
                       ELSE a
               ELSE [acc EXCEPT !.more_children = @ \o comment.children]
         IN dfs_comments(Tail(children), here)

has_more_children_ge(ids) == Len(ids) >= 0

\* line 268
has_more_children(ids) == Len(ids) > 0

\* line 271: range(1 + (len(comment_ids) // BATCH_SIZE))
num_batches(n) == 1 + (n \div BATCH_SIZE)

comment_ids_batch_overlap(comment_ids, i) ==
    SubSeq(comment_ids, BATCH_SIZE * i + 1,
           Min(BATCH_SIZE * i + BATCH_SIZE + 1, Len(comment_ids)))

\* lines 272-274: comment_ids[curr:next]
comment_ids_batch(comment_ids, i) ==
    SubSeq(comment_ids, BATCH_SIZE * i + 1,
           Min(BATCH_SIZE * i + BATCH_SIZE, Len(comment_ids)))

\* a comment's own id handed on to the next frontier with its replies
scan_thing_readds(thing) ==
    IF thing.kind = "more" /\ thing.count > 0
    THEN [comments_data |-> <<>>, next_comment_ids |-> thing.children]
    ELSE [comments_data |-> <<thing.id>>,
          next_comment_ids |-> IF thing.kind # "more"
                               THEN <<thing.id>> \o thing.replies ELSE <<>>]

\* lines 284-290: the body of `for thing in things`: what one thing appends
\* to comments_data and to next_comment_ids
scan_thing(thing) ==
    IF thing.kind = "more" /\ thing.count > 0
    THEN [comments_data |-> <<>>, next_comment_ids |-> thing.children]
    ELSE [comments_data |-> <<thing.id>>,
          next_comment_ids |-> IF Len(thing.replies) > 0
                               THEN thing.replies ELSE <<>>]

RECURSIVE scan_range(_, _, _)
\* what the loop appends over things[lo..hi], in order (evaluated by halves)
scan_range(things, lo, hi) ==
    IF lo > hi THEN [comments_data |-> <<>>, next_comment_ids |-> <<>>]
    ELSE IF lo = hi THEN scan_thing(things[lo])
    ELSE LET mid == (lo + hi) \div 2
             left == scan_range(things, lo, mid)
             right == scan_range(things, mid + 1, hi)
         IN [comments_data |-> left.comments_data \o right.comments_data,
             next_comment_ids |-> left.next_comment_ids \o right.next_comment_ids]

\* lines 283-290: `for thing in things`, from comments_data and an empty
\* next_comment_ids
scan_things(things, acc) ==
    LET got == scan_range(things, 1, Len(things))
    IN [comments_data |-> acc.comments_data \o got.comments_data,
        next_comment_ids |-> acc.next_comment_ids \o got.next_comment_ids]

\* an activation of dfs_morechildren: its argument, its loop index and the
\* id lists of the requests it has issued
Frame(comment_ids) == [comment_ids |-> comment_ids, i |-> 0, batches |-> <<>>]

Top == stack[Len(stack)]

\* the `for i in range(...)` loop of the activation f has run out
LoopOver(f) == f.i >= num_batches(Len(f.comment_ids))

\* lines 233-268, 295: the first request returns 200
GetCommentsInitial ==
    /\ gc_pc = "start"
    /\ RequestGet
    /\ LET walk == dfs_comments(Listing(0),
                                [comments_data |-> <<>>, more_children |-> <<>>])
       IN /\ comments_data' = walk.comments_data
          /\ more_children' = walk.more_children
          /\ IF has_more_children(walk.more_children)
             THEN /\ stack' = <<Frame(walk.more_children)>>
                  /\ gc_pc' = "expand"
             ELSE /\ stack' = <<>>
                  /\ gc_pc' = "done"
    /\ UNCHANGED <<treeVars, searchVars>>

\* lines 271-293: one iteration of the loop of the innermost dfs_morechildren
FetchBatch ==
    /\ gc_pc = "expand"
    /\ ~LoopOver(Top)
    /\ RequestGet
    /\ LET batch == comment_ids_batch(Top.comment_ids, Top.i)
           scan == scan_things(ServerMoreChildren(batch),
                               [comments_data |-> comments_data,
                                next_comment_ids |-> <<>>])
           caller == [stack EXCEPT ![Len(stack)] =
                        [@ EXCEPT !.i = @ + 1, !.batches = Append(@, batch)]]
       IN /\ comments_data' = scan.comments_data
          /\ stack' = IF Len(scan.next_comment_ids) > 0
                      THEN Append(caller, Frame(scan.next_comment_ids))
                      ELSE caller
    /\ UNCHANGED <<treeVars, gc_pc, more_children, searchVars>>

\* the loop of the innermost dfs_morechildren is over: it returns; when the
\* outermost returns, get_comments returns comments_data (lines 295-301)
ReturnFrame ==
    /\ gc_pc = "expand"
    /\ LoopOver(Top)
    /\ stack' = SubSeq(stack, 1, Len(stack) - 1)
    /\ gc_pc' = IF Len(stack) = 1 THEN "done" ELSE "expand"
    /\ UNCHANGED <<rateVars, treeVars, comments_data, more_children,
                   searchVars>>

\* a request of get_comments gets a status other than 200: _request_get
\* raises (line 131) and get_comments does not catch it
GetCommentsRaises ==
    /\ \/ gc_pc = "start"
       \/ gc_pc = "expand" /\ ~LoopOver(Top)
    /\ RequestGet
    /\ gc_pc' = "raised"
    /\ UNCHANGED <<treeVars, comments_data, more_children, stack, searchVars>>

----------------------------------------------------------------------------
\* SpecComments: get_comments on every small tree and on wide ones

MaxIds == 3     \* comments of the small trees

ViaKinds == {"inline", "more", "replies"}

\* the platform hands out every comment in exactly one way: parents come
\* before children, and only a thing of /api/morechildren lists replies by id
WellFormedTree ==
    /\ \A c \in 1..NumIds : tree_parent[c] \in 0..(c - 1)
    /\ \A c \in 1..NumIds :
         tree_via[c] = "replies" =>
             tree_parent[c] # 0 /\ ~InInitial(tree_parent[c])

\* sizes of the frontier around multiples of BATCH_SIZE
WideSizes == {BATCH_SIZE - 1, BATCH_SIZE, BATCH_SIZE + 1,
              2 * BATCH_SIZE, 2 * BATCH_SIZE + (BATCH_SIZE \div 2)}

\* k comments of the post behind one "more" placeholder; when deep, the first
\* has a reply handed out by id and the last has one behind a placeholder
WideParent(k, deep) ==
    [c \in 1..k |-> 0] \o (IF deep THEN <<1, k>> ELSE <<>>)

WideVia(k, deep) ==
    [c \in 1..k |-> "more"] \o (IF deep THEN <<"replies", "more">> ELSE <<>>)

InitComments ==
    /\ InitManager
    /\ \/ \E n \in 0..MaxIds :
            /\ tree_parent \in [1..n -> 0..MaxIds]
            /\ tree_via \in [1..n -> ViaKinds]
            /\ WellFormedTree
            /\ tree_stub \in SUBSET (0..n)
       \/ \E k \in WideSizes, deep \in BOOLEAN :
            /\ tree_parent = WideParent(k, deep)
            /\ tree_via = WideVia(k, deep)
            /\ tree_stub = {}
    /\ gc_pc = "start"
    /\ comments_data = <<>>
    /\ more_children = <<>>
    /\ stack = <<>>
    /\ NoSearch

NextComments ==
    \/ GetCommentsRaises
    \/ ReturnFrame
    \/ GetCommentsInitial
    \/ FetchBatch

SpecComments == InitComments /\ [][NextComments]_vars

\* get_comments runs on one thread without suspension (its requests are not
\* held back here): while it has a step to take, it takes one.
SpecCommentsLive ==
    /\ InitComments
    /\ [][NextComments]_vars
    /\ WF_vars(NextComments)

----------------------------------------------------------------------------
\* RedditRequestManager.search_posts

MaxPostId == 2      \* post ids the platform serves
MaxPages  == 2      \* pages explored
MaxTarget == 3      \* largest num_results explored

PageLens == 0..2    \* posts on one page
Terms == {"x", "cats"}

\* the pages the search endpoint may answer with: data.children by id, and
\* data.after
Pages ==
    { [children |-> ch, after |-> af] :
        ch \in UNION { [1..l -> 1..MaxPostId] : l \in PageLens },
        af \in 0..MaxPostId }

search_continue_le(seen, target) == Cardinality(seen) <= target

\* line 199: len(seen_ids) < num_results
search_continue(seen, target) == Cardinality(seen) < target

\* lines 223-227: every post of every page in order, tagged with the term
tag_posts(pages, term) ==
    LET posts == Flatten([j \in 1..Len(pages) |-> pages[j].children])
    IN [j \in 1..Len(posts) |-> [id |-> posts[j], query |-> term]]

\* lines 199-217, and 219-229 on break: one iteration of the loop
SearchRequest ==
    /\ sp_pc = "loop"
    /\ search_continue(seen_ids, num_results)
    /\ Len(results) < MaxPages
    /\ RequestGet
    /\ \E search_json \in Pages :
         /\ results' = Append(results, search_json)
         /\ seen_ids' = seen_ids \cup Range(search_json.children)
         /\ IF search_json.after = NONE
            THEN /\ sp_pc' = "done"
                 /\ posts_data' = tag_posts(results', query_term)
                 /\ UNCHANGED query_after
            ELSE /\ query_after' = search_json.after
                 /\ UNCHANGED <<sp_pc, posts_data>>
    /\ UNCHANGED <<commentVars, query_term, num_results>>

\* lines 199, 219-229: the loop condition is false
SearchLoopExit ==
    /\ sp_pc = "loop"
    /\ ~search_continue(seen_ids, num_results)
    /\ sp_pc' = "done"
    /\ posts_data' = tag_posts(results, query_term)
    /\ UNCHANGED <<rateVars, commentVars, query_term, num_results,
                   query_after, results, seen_ids>>

\* a search request gets a status other than 200: _request_get raises
\* (line 131) and search_posts does not catch it
SearchRaises ==
    /\ sp_pc = "loop"
    /\ search_continue(seen_ids, num_results)
    /\ Len(results) < MaxPages
    /\ RequestGet
    /\ sp_pc' = "raised"
    /\ UNCHANGED <<commentVars, query_term, num_results, query_after,
                   results, seen_ids, posts_data>>

InitSearch ==
    /\ InitManager
    /\ tree_parent = <<>>
    /\ tree_via = <<>>
    /\ tree_stub = {}
    /\ gc_pc = "none"
    /\ comments_data = <<>>
    /\ more_children = <<>>
    /\ stack = <<>>
    /\ sp_pc = "loop"
    /\ query_term \in Terms
    /\ num_results \in 0..MaxTarget
    /\ query_after = NONE
    /\ results = <<>>
    /\ seen_ids = {}
    /\ posts_data = <<>>

NextSearch ==
    \/ SearchRequest
    \/ SearchLoopExit
    \/ SearchRaises

SpecSearch == InitSearch /\ [][NextSearch]_vars

----------------------------------------------------------------------------
\* SpecAll: the manager used directly (_request_get step by step) or through
\* one of its clients. A client runs to its end on the one thread: no direct
\* call starts in a run of get_comments or search_posts.

NoClientRuns == gc_pc = "none" /\ sp_pc = "none"

InitAll == Init \/ InitComments \/ InitSearch

NextAll ==
    \/ NoClientRuns /\ Next
    \/ NextComments
    \/ NextSearch

SpecAll == InitAll /\ [][NextAll]_vars

----------------------------------------------------------------------------
\* Properties

\* C1: with no server backfill, any max_requests_in_window + 1 consecutive
\* GETs actually sent span at least window_time seconds.
C1_RateBound ==
    just_started =>
        \A i \in 1..Len(sent) :
            i + max_requests_in_window <= Len(sent) =>
                sent[i + max_requests_in_window] - sent[i] >= window_time

\* C2: the RateWindow never holds more than max_requests_in_window entries.
C2_WindowBounded ==
    Len(request_unixtime_queue) <= max_requests_in_window

\* C2 witness: a call whose backfill asked for more entries than the window
\* holds has returned, and the window is exactly full.
C2_Witness ==
    /\ pc = "returned"
    /\ ~just_started
    /\ resp.used > max_requests_in_window
    /\ Len(request_unixtime_queue) = max_requests_in_window

\* C3: while a call is in its admission phase with the window full and its
\* front entry less than window_time old, no GET is sent and the window is not
\* modified; hence a GET is only sent when the window is not full or its front
\* entry is at least window_time old.
C3_Admission ==
    [][ ( /\ pc = "admit"
          /\ Len(request_unixtime_queue) = max_requests_in_window
          /\ Len(request_unixtime_queue) > 0
          /\ clock - request_unixtime_queue[1] < window_time )
        => ( /\ sent' = sent
             /\ request_unixtime_queue' = request_unixtime_queue ) ]_vars

\* C3 witness: a call that found the window saturated slept and then sent.
C3_Witness ==
    /\ pc = "inflight"
    /\ sleeps > 0
    /\ Len(sent) > max_requests_in_window

\* C4: once one call has returned a response, no later call adds synthetic
\* entries: handling a response never changes the window again.
C4_ReconcileOnlyFirst ==
    [][ (succeeded /\ pc = "inflight")
        => request_unixtime_queue' = request_unixtime_queue ]_vars

\* C5: when the first call on a fresh instance returns with Used = U > 1,
\* U <= max_requests_in_window and Reset = R, the window holds exactly U
\* entries: U - 1 at now - min(R, window_time), then now at the back.
C5_Reconciled ==
    ( /\ pc = "returned"
      /\ Len(sent) = 1
      /\ resp.has_ratelimit
      /\ resp.used > 1
      /\ resp.used <= max_requests_in_window )
    => ( /\ Len(request_unixtime_queue) = resp.used
         /\ \A i \in 1..(resp.used - 1) :
              request_unixtime_queue[i] = now - Min(resp.reset, window_time)
         /\ request_unixtime_queue[resp.used] = now
         /\ now = sent[1] )

\* C5 witness: such a first call, with a Reset larger than window_time, at a
\* time when the clock has advanced.
C5_Witness ==
    /\ pc = "returned"
    /\ Len(sent) = 1
    /\ resp.has_ratelimit
    /\ resp.used = 2
    /\ max_requests_in_window = 2
    /\ resp.reset > window_time
    /\ now > 0
    /\ request_unixtime_queue = <<now - window_time, now>>

\* C10: the constructed instance uses min(window_time_sec, 600) and
\* min(max_requests_in_window, 1000), and the deque's capacity is the clamped
\* value.
C10_Clamped ==
    pc # "new" =>
        /\ window_time = Min(arg_window_time_sec, WINDOW_TIME_CAP)
        /\ max_requests_in_window = Min(arg_max_requests_in_window, MAX_REQUESTS_CAP)
        /\ queue_maxlen = Min(arg_max_requests_in_window, MAX_REQUESTS_CAP)

\* C10 witness: an instance built from arguments above both caps.
C10_Witness ==
    /\ pc = "idle"
    /\ arg_window_time_sec > WINDOW_TIME_CAP
    /\ arg_max_requests_in_window > MAX_REQUESTS_CAP
    /\ window_time = WINDOW_TIME_CAP
    /\ queue_maxlen = MAX_REQUESTS_CAP

\* ---- get_comments ----

\* the ids of the activation f that no request has asked for yet
Pending(f) ==
    SubSeq(f.comment_ids, Min(BATCH_SIZE * f.i, Len(f.comment_ids)) + 1,
           Len(f.comment_ids))

\* C6: every comment id of the tree appears exactly once in the returned
\* list: none is missing on return, none appears twice, and no id that has
\* been fetched is waiting on a frontier.
C6_ExactlyOnce ==
    /\ \A a, b \in 1..Len(comments_data) :
         (a # b /\ comments_data[a] # PLACEHOLDER_ID)
             => comments_data[a] # comments_data[b]
    /\ \A l \in 1..Len(stack) :
         Range(Pending(stack[l])) \cap Range(comments_data) = {}
    /\ gc_pc = "done" => (1..NumIds) \subseteq Range(comments_data)

\* C6 witness: get_comments has returned for a tree whose comments arrived
\* nested, behind a placeholder and through a replies list.
C6_Witness ==
    /\ gc_pc = "done"
    /\ \A v \in ViaKinds : \E c \in 1..NumIds : tree_via[c] = v
    /\ Len(comments_data) >= NumIds

CeilDiv(n, d) == (n + d - 1) \div d

\* C7: a frontier of n >= 1 ids is cut in order into chunks of at most
\* BATCH_SIZE ids, with exactly ceil(n / BATCH_SIZE) requests, none for an
\* empty id list, whose id lists concatenated give the frontier.
C7_Batching ==
    \A l \in 1..Len(stack) :
        LET f == stack[l]
            n == Len(f.comment_ids)
        IN n >= 1 =>
             /\ Len(f.batches) <= CeilDiv(n, BATCH_SIZE)
             /\ \A j \in 1..Len(f.batches) :
                  /\ f.batches[j] # <<>>
                  /\ Len(f.batches[j]) <= BATCH_SIZE
             /\ Flatten(f.batches)
                  = SubSeq(f.comment_ids, 1, Len(Flatten(f.batches)))
             /\ LoopOver(f) =>
                  /\ Len(f.batches) = CeilDiv(n, BATCH_SIZE)
                  /\ Flatten(f.batches) = f.comment_ids

\* comments nested in the first response
InitialIds == {c \in 1..NumIds : InInitial(c)}

\* "more" placeholders of the first response
InitialPlaceholders ==
    Flatten([j \in 1..(NumIds + 1) |->
               IF j = NumIds + 1 THEN MorePlaceholders(0)
               ELSE IF InInitial(j) THEN MorePlaceholders(j) ELSE <<>>])

\* x resolves as an ordinary comment with nothing below it
ResolvesAsLeaf(x) ==
    /\ x \notin tree_stub
    /\ \A c \in 1..NumIds : tree_parent[c] # x

\* C8: with c nested comments and one placeholder of k ids (1 <= k <
\* BATCH_SIZE) that all resolve as ordinary comments without replies,
\* get_comments returns c + k records after exactly 2 requests; with no
\* pending "more" child ids it sends exactly 1 request.
C8_Counts ==
    gc_pc = "done" =>
        /\ ( /\ Len(InitialPlaceholders) = 1
             /\ Len(more_children) >= 1
             /\ Len(more_children) < BATCH_SIZE
             /\ \A x \in Range(more_children) : ResolvesAsLeaf(x) )
           => ( /\ Len(comments_data)
                     = Cardinality(InitialIds) + Len(more_children)
                /\ Len(sent) = 2 )
        /\ Len(more_children) = 0 => Len(sent) = 1

\* C8 witness: one nested comment or more, one placeholder with two ids or
\* more, all leaves; returned after two requests.
C8_Witness ==
    /\ gc_pc = "done"
    /\ Len(InitialPlaceholders) = 1
    /\ Len(more_children) >= 2
    /\ Cardinality(InitialIds) >= 1
    /\ \A x \in Range(more_children) : ResolvesAsLeaf(x)
    /\ Len(comments_data) = Cardinality(InitialIds) + Len(more_children)
    /\ Len(sent) = 2

\* ---- search_posts ----

\* distinct post ids on the first j pages
SeenAfter(j) == UNION { Range(results[m].children) : m \in 1..j }

\* C9: a search request is issued only while fewer than num_results distinct
\* ids have been seen and the previous page carried a cursor; a first page
\* without cursor ends the search after exactly 1 request with that page's
\* records, each tagged with the query term.
C9_Pagination ==
    /\ \A j \in 1..Len(results) :
         /\ Cardinality(SeenAfter(j - 1)) < num_results
         /\ j > 1 => results[j - 1].after # NONE
    /\ sp_pc = "raised" =>
         /\ Cardinality(seen_ids) < num_results
         /\ Len(results) > 0 => results[Len(results)].after # NONE
    /\ Len(sent) = Len(results) + (IF sp_pc = "raised" THEN 1 ELSE 0)
    /\ (sp_pc = "done" /\ Len(results) > 0 /\ results[1].after = NONE) =>
         /\ Len(sent) = 1
         /\ posts_data = [j \in 1..Len(results[1].children) |->
                            [id |-> results[1].children[j], query |-> query_term]]

\* C9 witness: the first page had no cursor and fewer distinct posts than
\* asked for; the search returned its two records.
C9_Witness ==
    /\ sp_pc = "done"
    /\ Len(results) = 1
    /\ results[1].after = NONE
    /\ Cardinality(seen_ids) < num_results
    /\ Len(posts_data) = 2
    /\ \A j \in 1..2 : posts_data[j].query = query_term

\* C11: a response whose status is not 200 makes _request_get raise after
\* exactly one GET: the call sends once on leaving its admission phase, the
\* raising step changes neither the window nor _just_started nor the GETs
\* sent, nothing is sent after the raise, and a client that got the exception
\* (get_comments, search_posts) sends nothing further and keeps what it had.
C11_RaiseOnce ==
    [][ /\ (pc = "admit" /\ pc' # "admit") =>
              (pc' = "inflight" /\ Len(sent') = Len(sent) + 1)
        /\ pc = "inflight" =>
              (sent' = sent /\ (resp'.status # HTTP_OK <=> pc' = "raised"))
        /\ pc' = "raised" =>
              (/\ request_unixtime_queue' = request_unixtime_queue
               /\ just_started' = just_started
               /\ sent' = sent)
        /\ pc = "raised" =>
              (/\ pc' = "idle"
               /\ sent' = sent
               /\ request_unixtime_queue' = request_unixtime_queue
               /\ just_started' = just_started
               /\ succeeded' = succeeded)
        /\ (gc_pc # "raised" /\ gc_pc' = "raised") =>
              (Len(sent') = Len(sent) + 1 /\ comments_data' = comments_data)
        /\ (sp_pc # "raised" /\ sp_pc' = "raised") =>
              (Len(sent') = Len(sent) + 1 /\ results' = results)
        /\ (gc_pc = "raised" \/ sp_pc = "raised") => sent' = sent
      ]_vars

\* a call that raised on an instance that had not reconciled yet, after an
\* earlier call
C11_Witness ==
    /\ pc = "raised"
    /\ resp.status # HTTP_OK
    /\ just_started
    /\ Len(sent) >= 2
    /\ Len(request_unixtime_queue) >= 1

\* q with some of its front entries removed and x put at the back
IsSuffixPlus(q2, q, x) ==
    \E k \in 0..Len(q) : q2 = Append(SubSeq(q, k + 1, Len(q)), x)

\* C12: a 200 without rate-limit headers never fails the call: the step that
\* handles it returns the response and leaves the window and _just_started
\* alone, so over the whole call the window changes only in the send step,
\* which removes entries from the front and appends the one timestamp.
C12_NoHeaders ==
    [][ /\ (pc = "admit" /\ pc' = "admit") =>
              request_unixtime_queue' = request_unixtime_queue
        /\ (pc = "admit" /\ pc' = "inflight") =>
              IsSuffixPlus(request_unixtime_queue', request_unixtime_queue, now')
        /\ (pc = "inflight" /\ resp'.status = HTTP_OK /\ ~resp'.has_ratelimit) =>
              (/\ pc' = "returned"
               /\ request_unixtime_queue' = request_unixtime_queue
               /\ just_started' = just_started)
        /\ (pc = "returned" /\ ~resp.has_ratelimit) =>
              (/\ pc' = "idle"
               /\ succeeded'
               /\ request_unixtime_queue' = request_unixtime_queue
               /\ just_started' = just_started)
      ]_vars

\* a header-less 200 returned by a call that removed entries before it
\* appended, on an instance that has not reconciled
C12_Witness ==
    /\ pc = "returned"
    /\ resp.status = HTTP_OK
    /\ ~resp.has_ratelimit
    /\ just_started
    /\ Len(request_unixtime_queue) >= 1
    /\ Len(sent) > Len(request_unixtime_queue)
    /\ request_unixtime_queue[Len(request_unixtime_queue)] = now

\* the entries of q at most window_time old at the reading nw, in order
fresh_entries(q, nw) ==
    SelectSeq(q, LAMBDA e : nw - e <= window_time)

\* C13: the pruning pass removes exactly the entries older than window_time:
\* when a call leaves its admission phase, what the pass leaves of the window
\* is the entries at most window_time old at the pass's reading of the clock.
C13_PruneExact ==
    (pc = "admit" /\ ~admission_blocked(request_unixtime_queue,
                                        oldest_request_unixtime, now)) =>
        prune(request_unixtime_queue, oldest_request_unixtime, now)
            = fresh_entries(request_unixtime_queue, now)

\* C14: after the pruning pass of a call, every entry left in the window is
\* at most window_time old at the pass's reading of the clock.
C14_Fresh ==
    (pc = "admit" /\ ~admission_blocked(request_unixtime_queue,
                                        oldest_request_unixtime, now)) =>
        LET pruned == prune(request_unixtime_queue, oldest_request_unixtime, now)
        IN \A j \in 1..Len(pruned) : now - pruned[j] <= window_time

\* C15: the window is ordered oldest first: its timestamps never decrease
\* from front to back.
C15_Ordered ==
    \A j \in 1..(Len(request_unixtime_queue) - 1) :
        request_unixtime_queue[j] <= request_unixtime_queue[j + 1]

\* the ids the things answering the frontier ids hand on, over all its chunks
NextFrontier(ids) ==
    scan_things(ServerMoreChildren(ids),
                [comments_data |-> <<>>, next_comment_ids |-> <<>>]).next_comment_ids

\* C16: expansion goes round by round: an activation of dfs_morechildren for
\* the next frontier exists only when every chunk of the frontier before it
\* has been fetched, and its ids are the ids collected over all those chunks,
\* in order.
C16_RoundOrder ==
    \A l \in 1..(Len(stack) - 1) :
        /\ stack[l].i >= CeilDiv(Len(stack[l].comment_ids), BATCH_SIZE)
        /\ stack[l + 1].comment_ids = NextFrontier(stack[l].comment_ids)

\* C17: the list get_comments builds holds data of ordinary comments only:
\* the data of a "more" placeholder is never appended, whatever its count.
C17_OnlyComments ==
    \A j \in 1..Len(comments_data) : comments_data[j] # PLACEHOLDER_ID

\* requests that suffice for a tree: the first, and for every activation of
\* dfs_morechildren one per started hundred of its ids, plus one
RequestBudget == 1 + NumIds + CeilDiv(NumIds, BATCH_SIZE)

\* C18: get_comments ends: it never sends more requests than the finite tree
\* accounts for, and every run reaches its end, which is the return unless a
\* request failed.
C18_Terminates ==
    /\ [](Len(sent) <= RequestBudget)
    /\ <>(gc_pc = "done" \/ gc_pc = "raised")

\* get_comments returned after expansions nested three deep
C18_Witness ==
    /\ gc_pc = "done"
    /\ Len(sent) >= 4
    /\ Len(comments_data) >= MaxIds

\* C19: a call held back by a saturated window gets to send. Every sleep
\* starts while the front entry, as read at entry, is less than window_time
\* old at the latest reading of the clock, lasts one increment, changes
\* nothing else and ends with a new reading, which is less than one
\* increment past the moment the front entry is window_time old (not
\* counting the time between the reading before and the start of the sleep);
\* once a reading finds the front entry window_time old the call sleeps no
\* more, and its next step sends exactly one GET. Under SpecLive a call in
\* its admission phase always reaches that step.
C19_AdmissionLive ==
    /\ [][ /\ (pc = "admit" /\ sleeps' # sleeps) =>
                 (/\ now - oldest_request_unixtime < window_time
                  /\ clock' = clock + SLEEP_SEC
                  /\ now' = clock'
                  /\ now' - (clock - now)
                        < oldest_request_unixtime + window_time + SLEEP_SEC
                  /\ sleeps' = sleeps + 1
                  /\ pc' = "admit"
                  /\ sent' = sent
                  /\ request_unixtime_queue' = request_unixtime_queue)
           /\ (pc = "admit" /\ now - oldest_request_unixtime >= window_time) =>
                 sleeps' = sleeps
           /\ (pc = "admit" /\ pc' # "admit") =>
                 (pc' = "inflight" /\ sent' = Append(sent, clock))
         ]_vars
    /\ (pc = "admit") ~> (pc = "inflight")

\* a call that had to sleep twice has sent its GET
C19_Witness ==
    /\ pc = "inflight"
    /\ sleeps > 1
    /\ now - oldest_request_unixtime >= window_time
    /\ now - oldest_request_unixtime < window_time + SLEEP_SEC

\* C20: when a call has returned a response, the back entry of the window is
\* the timestamp of the request it sent.
C20_BackIsSent ==
    pc = "returned" =>
        /\ Len(request_unixtime_queue) > 0
        /\ request_unixtime_queue[Len(request_unixtime_queue)] = now

====

